---- MODULE Spec2Model ----
(***************************************************************************)
(* A model of PyInstaller/utils/osx.py: the Mach-O helpers that resolve    *)
(* architecture names, read and overwrite the SDK / minimum-OS version,    *)
(* patch the __LINKEDIT and string-table sizes after data was appended,    *)
(* and gate a binary against a target architecture.                        *)
(*                                                                         *)
(* The file on disk is the state.  Every action is one call of a public    *)
(* function of the module: it parses the file, does what the function      *)
(* does, and records the outcome (ret), the file as it was before the      *)
(* call (pre) and the passes the call made over the file (io).             *)
(***************************************************************************)
EXTENDS Integers, Sequences, FiniteSets, TLC

VARIABLES
    disk,   \* the Mach-O file: magic, fat header table, slices, total size
    pre,    \* the file as it was when the last call started
    ret,    \* the last call: [op, args, status, msg, value, thinned]
    io      \* the passes the last call made over the file, in order

vars == <<disk, pre, ret, io>>

(***************************************************************************)
(* Bounds of the model.                                                    *)
(***************************************************************************)
\* most slices in a fat container
MaxSlices == 2
\* the appended data reaches up to this many 4 KiB pages past __LINKEDIT's start
MaxPages == 4

(***************************************************************************)
(* Constants of macholib.mach_o that the module imports or spells out.     *)
(***************************************************************************)
LC_SEGMENT == 1
LC_SYMTAB == 2
LC_SEGMENT_64 == 25
LC_CODE_SIGNATURE == 29
LC_VERSION_MIN_MACOSX == 36
LC_BUILD_VERSION == 50
\* 0x01000000, the 64-bit ABI flag of a cputype
CPU_ARCH_ABI64 == 16777216
\* 0x0FFFFFFF, the mask _get_arch_string applies to the cpusubtype
SUBTYPE_MASK == 268435455
\* 0x4000 and 0x1000
PAGE_SIZE_ARM64 == 16384
PAGE_SIZE_OTHER == 4096

(***************************************************************************)
(* Integer helpers: Python's &, |, >>, << on non-negative integers and     *)
(* math.ceil of a true division.                                           *)
(***************************************************************************)
RECURSIVE BitAnd(_, _)
BitAnd(a, b) ==
    IF a = 0 \/ b = 0 THEN 0
    ELSE (IF a % 2 = 1 /\ b % 2 = 1 THEN 1 ELSE 0) + 2 * BitAnd(a \div 2, b \div 2)

RECURSIVE BitOr(_, _)
BitOr(a, b) ==
    IF a = 0 THEN b
    ELSE IF b = 0 THEN a
    ELSE (IF a % 2 = 1 \/ b % 2 = 1 THEN 1 ELSE 0) + 2 * BitOr(a \div 2, b \div 2)

RECURSIVE ShiftLeft(_, _)
ShiftLeft(a, n) == IF n = 0 THEN a ELSE ShiftLeft(2 * a, n - 1)

RECURSIVE ShiftRight(_, _)
ShiftRight(a, n) == IF n = 0 THEN a ELSE ShiftRight(a \div 2, n - 1)

\* math.ceil(a / b) for b > 0
CeilDiv(a, b) == -((-a) \div b)

Range(s) == {s[i] : i \in 1..Len(s)}

(***************************************************************************)
(* The data model: load commands, slices, the container on disk.           *)
(* A load command is a record with its cmd number and the fields the       *)
(* module reads or writes; every other field passes through untouched.     *)
(***************************************************************************)
Segment64(name, off, fsize, vsize) ==
    [cmd |-> LC_SEGMENT_64, segname |-> name, fileoff |-> off,
     filesize |-> fsize, vmsize |-> vsize]

Segment32(name, off, fsize, vsize) ==
    [cmd |-> LC_SEGMENT, segname |-> name, fileoff |-> off,
     filesize |-> fsize, vmsize |-> vsize]

Symtab(off, size) == [cmd |-> LC_SYMTAB, stroff |-> off, strsize |-> size]

BuildVersion(min, sdkv) == [cmd |-> LC_BUILD_VERSION, minos |-> min, sdk |-> sdkv]

VersionMin(ver, sdkv) == [cmd |-> LC_VERSION_MIN_MACOSX, version |-> ver, sdk |-> sdkv]

CodeSignature == [cmd |-> LC_CODE_SIGNATURE]

Slice(ctype, csub, cmds) ==
    [header |-> [cputype |-> ctype, cpusubtype |-> csub], commands |-> cmds]

ThinMagics == {"MH_MAGIC_64"}
FatMagics == {"FAT_MAGIC", "FAT_MAGIC_64"}

\* every slice of the model's files occupies this many bytes before the append
SLICE_LEN == 2 * PAGE_SIZE_ARM64
\* where __LINKEDIT starts inside its slice
LINKEDIT_OFF == PAGE_SIZE_ARM64

\* the offset the fat header gives slice i (slice 1 follows the fat header)
SliceOffset(i) == i * SLICE_LEN

\* A file of the given magic holding the slices, with size bytes in all.
Container(magic, slices, size) ==
    [magic  |-> magic,
     archs  |-> IF magic \in FatMagics
                THEN [i \in 1..Len(slices) |->
                        [offset |-> SliceOffset(i), size |-> SLICE_LEN]]
                ELSE <<>>,
     slices |-> slices,
     size   |-> size]

\* The size of a file that ends where its last slice ends (nothing appended).
PlainSize(magic, n) == IF magic \in FatMagics THEN SliceOffset(n) + SLICE_LEN ELSE SLICE_LEN

(***************************************************************************)
(* macholib's MachO(filename): the in-memory model of the file.  A header  *)
(* carries the offset of its slice inside the file (0 in a thin binary).   *)
(***************************************************************************)
Parseable(d) == d.magic \in ThinMagics \cup FatMagics

MachO(d) ==
    [fat     |-> d.magic \in FatMagics,
     headers |-> [i \in 1..Len(d.slices) |->
                    [offset   |-> IF d.magic \in FatMagics THEN d.archs[i].offset ELSE 0,
                     header   |-> d.slices[i].header,
                     commands |-> d.slices[i].commands]]]

(***************************************************************************)
(* _get_arch_string: "" stands for the failed assertion.                   *)
(***************************************************************************)
Unhandled == ""

\* the subtype compared with its capability bits left in
get_arch_string_unmasked(header) ==
    LET cputype    == header.cputype
        cpusubtype == header.cpusubtype
    IN  IF cputype = BitOr(CPU_ARCH_ABI64, 7)
        THEN (IF cpusubtype = 8 THEN "x86_64h" ELSE "x86_64")
        ELSE IF cputype = BitOr(CPU_ARCH_ABI64, 12)
        THEN (IF cpusubtype = 2 THEN "arm64e" ELSE "arm64")
        ELSE IF cputype = 7
        THEN "i386"
        ELSE Unhandled

get_arch_string(header) ==
    LET cputype    == header.cputype
        cpusubtype == BitAnd(header.cpusubtype, SUBTYPE_MASK)
    IN  IF cputype = BitOr(CPU_ARCH_ABI64, 7)
        THEN (IF cpusubtype = 8 THEN "x86_64h" ELSE "x86_64")
        ELSE IF cputype = BitOr(CPU_ARCH_ABI64, 12)
        THEN (IF cpusubtype = 2 THEN "arm64e" ELSE "arm64")
        ELSE IF cputype = 7
        THEN "i386"
        ELSE Unhandled

\* str.startswith('arm64') over the names _get_arch_string returns
StartsWithArm64(name) == name \in {"arm64", "arm64e"}

(***************************************************************************)
(* The outcome of a call.                                                  *)
(***************************************************************************)
Outcome(status, msg, value) == [status |-> status, msg |-> msg, value |-> value]

Ok(value) == Outcome("ok", "", value)

Call(op, args, out, thinned) ==
    [op |-> op, args |-> args, status |-> out.status, msg |-> out.msg,
     value |-> out.value, thinned |-> thinned]

NoCall == Call("none", <<>>, Ok(<<>>), <<>>)

(***************************************************************************)
(* get_binary_architectures: (is_fat, archs) of the file.                  *)
(***************************************************************************)
get_binary_architectures(d) ==
    IF ~Parseable(d)
    THEN Outcome("InvalidBinaryError", "Invalid Mach-O binary!", <<>>)
    ELSE LET executable == MachO(d)
             archs == [i \in 1..Len(executable.headers) |->
                         get_arch_string(executable.headers[i].header)]
         IN  IF Unhandled \in Range(archs)
             THEN Outcome("AssertionError", "Unhandled architecture!", <<>>)
             ELSE Ok(<<executable.fat, archs>>)

GetBinaryArchitectures ==
    /\ pre' = disk
    /\ ret' = Call("get_binary_architectures", <<>>, get_binary_architectures(disk), <<>>)
    /\ io' = <<"parse">>
    /\ UNCHANGED disk

(***************************************************************************)
(* binary_to_target_arch: the decision, then lipo when thinning is needed. *)
(***************************************************************************)
\* universal2 accepted of a thin binary too
DecisionUniversal2Unchecked(is_fat, archs, target_arch) ==
    IF target_arch = "universal2"
    THEN "Satisfied"
    ELSE IF is_fat
    THEN (IF target_arch \notin Range(archs) THEN "NoSlice" ELSE "RequiresThinning")
    ELSE (IF target_arch \notin Range(archs) THEN "WrongArch" ELSE "Satisfied")

\* a fat binary thinned without looking for the target's slice
DecisionSliceUnchecked(is_fat, archs, target_arch) ==
    IF target_arch = "universal2"
    THEN (IF ~is_fat THEN "NotFat" ELSE "Satisfied")
    ELSE IF is_fat
    THEN "RequiresThinning"
    ELSE (IF target_arch \notin Range(archs) THEN "WrongArch" ELSE "Satisfied")

Decision(is_fat, archs, target_arch) ==
    IF target_arch = "universal2"
    THEN (IF ~is_fat THEN "NotFat" ELSE "Satisfied")
    ELSE IF is_fat
    THEN (IF target_arch \notin Range(archs) THEN "NoSlice" ELSE "RequiresThinning")
    ELSE (IF target_arch \notin Range(archs) THEN "WrongArch" ELSE "Satisfied")

IncompatibleMessage(decision) ==
    CASE decision = "NotFat"    -> "is not a fat binary!"
      [] decision = "NoSlice"   -> "does not contain slice for target arch!"
      [] decision = "WrongArch" -> "is incompatible with target arch!"

\* lipo -thin thin_arch filename -output filename, when it exits with 0: the
\* file becomes the thin binary holding slice i alone.
Thinned(d, i) ==
    [magic |-> "MH_MAGIC_64", archs |-> <<>>, slices |-> <<d.slices[i]>>,
     size |-> d.archs[i].size]

LipoExitCodes == {0, 1}

BinaryToTargetArch(target_arch) ==
    LET found == get_binary_architectures(disk)
        op == "binary_to_target_arch"
    IN  /\ pre' = disk
        /\ IF found.status # "ok"
           THEN /\ ret' = Call(op, <<target_arch>>, found, <<>>)
                /\ io' = <<"parse">>
                /\ UNCHANGED disk
           ELSE LET decision == Decision(found.value[1], found.value[2], target_arch)
                IN  IF decision = "Satisfied"
                    THEN /\ ret' = Call(op, <<target_arch>>, Ok(<<>>), <<>>)
                         /\ io' = <<"parse">>
                         /\ UNCHANGED disk
                    ELSE IF decision = "RequiresThinning"
                    THEN \E retcode \in LipoExitCodes :
                           /\ io' = <<"parse", "lipo">>
                           /\ IF retcode # 0
                              THEN /\ ret' = Call(op, <<target_arch>>,
                                               Outcome("SystemError", "lipo failure!", <<>>),
                                               <<target_arch>>)
                                   /\ UNCHANGED disk
                              ELSE /\ ret' = Call(op, <<target_arch>>, Ok(<<>>),
                                               <<target_arch>>)
                                   /\ \E i \in 1..Len(disk.slices) :
                                        /\ found.value[2][i] = target_arch
                                        /\ disk' = Thinned(disk, i)
                    ELSE /\ ret' = Call(op, <<target_arch>>,
                                     Outcome("IncompatibleBinaryArchError",
                                             IncompatibleMessage(decision), <<>>),
                                     <<>>)
                         /\ io' = <<"parse">>
                         /\ UNCHANGED disk

(***************************************************************************)
(* MachO.write(fp): every header's load commands are packed and written in *)
(* order.  Packing an unsigned field raises struct.error on a negative     *)
(* value, and what was written before it stays written.                    *)
(***************************************************************************)
Packable(c) ==
    IF c.cmd \in {LC_SEGMENT_64, LC_SEGMENT}
    THEN c.filesize >= 0 /\ c.vmsize >= 0
    ELSE IF c.cmd = LC_SYMTAB
    THEN c.strsize >= 0
    ELSE TRUE

Unpackable(executable) ==
    {p \in UNION {{<<i, j>> : j \in 1..Len(executable.headers[i].commands)} :
                    i \in 1..Len(executable.headers)} :
        ~Packable(executable.headers[p[1]].commands[p[2]])}

\* command j of header i is written: nothing at or before it failed to pack
Written(executable, i, j) ==
    \A p \in Unpackable(executable) : p[1] > i \/ (p[1] = i /\ p[2] > j)

WriteBack(d, executable) ==
    [d EXCEPT !.slices =
        [i \in 1..Len(d.slices) |->
            [header   |-> d.slices[i].header,
             commands |-> [j \in 1..Len(d.slices[i].commands) |->
                             IF Written(executable, i, j)
                             THEN executable.headers[i].commands[j]
                             ELSE d.slices[i].commands[j]]]]]

WriteOutcome(executable) ==
    IF Unpackable(executable) = {}
    THEN Ok(<<>>)
    ELSE Outcome("struct.error", "argument out of range", <<>>)

(***************************************************************************)
(* The version codec.                                                      *)
(***************************************************************************)
\* the positions of the commands of a header whose cmd is one of kinds
Positions(commands, kinds) == {j \in 1..Len(commands) : commands[j].cmd \in kinds}

\* _find_version_cmd: the position of the version command, 0 when the assertion fails
find_version_cmd(header) ==
    LET version_cmd == Positions(header.commands, {LC_BUILD_VERSION, LC_VERSION_MIN_MACOSX})
    IN  IF Cardinality(version_cmd) = 1 THEN CHOOSE j \in version_cmd : TRUE ELSE 0

NoVersionCmd ==
    Outcome("AssertionError",
            "Expected exactly one LC_BUILD_VERSION or LC_VERSION_MIN_MACOSX command!", <<>>)

NotMachO == Outcome("ValueError", "Unknown Mach-O header", <<>>)

hex_triplet(version) ==
    LET major    == ShiftRight(BitAnd(version, 16711680), 16)
        minor    == ShiftRight(BitAnd(version, 65280), 8)
        revision == BitAnd(version, 255)
    IN  <<major, minor, revision>>

\* major and minor shifted into each other's place
PackVersionSwapped(major, minor, revision) ==
    BitOr(BitOr(ShiftLeft(major, 8), ShiftLeft(minor, 16)), revision)

\* major << 16 | minor << 8 | revision
PackVersion(major, minor, revision) ==
    BitOr(BitOr(ShiftLeft(major, 16), ShiftLeft(minor, 8)), revision)

get_macos_sdk_version(d) ==
    IF ~Parseable(d) THEN NotMachO
    ELSE LET header == MachO(d).headers[1]
             version_cmd == find_version_cmd(header)
         IN  IF version_cmd = 0 THEN NoVersionCmd
             ELSE Ok(hex_triplet(header.commands[version_cmd].sdk))

GetMacosSdkVersion ==
    /\ pre' = disk
    /\ ret' = Call("get_macos_sdk_version", <<>>, get_macos_sdk_version(disk), <<>>)
    /\ io' = <<"parse">>
    /\ UNCHANGED disk

\* Python's order on tuples of three integers
TupleLess(a, b) ==
    \/ a[1] < b[1]
    \/ a[1] = b[1] /\ a[2] < b[2]
    \/ a[1] = b[1] /\ a[2] = b[2] /\ a[3] < b[3]

\* Python's min over a non-empty sequence: the first of the smallest items
RECURSIVE MinOf(_)
MinOf(s) ==
    IF Len(s) = 1 THEN s[1]
    ELSE LET rest == MinOf(Tail(s))
         IN  IF TupleLess(rest, s[1]) THEN rest ELSE s[1]

\* the SDK read where LC_BUILD_VERSION holds the minimum OS
MinOsFieldSdk(cmd) == IF cmd.cmd = LC_VERSION_MIN_MACOSX THEN cmd.version ELSE cmd.sdk

\* the field macosx_version_min reads from a slice's version command
MinOsField(cmd) == IF cmd.cmd = LC_VERSION_MIN_MACOSX THEN cmd.version ELSE cmd.minos

macosx_version_min(d) ==
    IF ~Parseable(d) THEN NotMachO
    ELSE LET headers == MachO(d).headers
             found == [i \in 1..Len(headers) |-> find_version_cmd(headers[i])]
         IN  IF 0 \in Range(found) THEN NoVersionCmd
             ELSE LET versions == [i \in 1..Len(headers) |->
                                     MinOsField(headers[i].commands[found[i]])]
                  IN  Ok(MinOf([i \in 1..Len(versions) |-> hex_triplet(versions[i])]))

MacosxVersionMin ==
    /\ pre' = disk
    /\ ret' = Call("macosx_version_min", <<>>, macosx_version_min(disk), <<>>)
    /\ io' = <<"parse">>
    /\ UNCHANGED disk

\* minor and revision not validated
ValidateMajorOnly(major, minor, revision) ==
    IF ~(0 <= major /\ major <= 255) THEN "Invalid major version value!" ELSE ""

\* the upper limits off by one
ValidateOffByOne(major, minor, revision) ==
    IF ~(0 <= major /\ major <= 256) THEN "Invalid major version value!"
    ELSE IF ~(0 <= minor /\ minor <= 256) THEN "Invalid minor version value!"
    ELSE IF ~(0 <= revision /\ revision <= 256) THEN "Invalid revision value!"
    ELSE ""

\* the three assertions that open set_macos_sdk_version, in order
Validate(major, minor, revision) ==
    IF ~(0 <= major /\ major <= 255) THEN "Invalid major version value!"
    ELSE IF ~(0 <= minor /\ minor <= 255) THEN "Invalid minor version value!"
    ELSE IF ~(0 <= revision /\ revision <= 255) THEN "Invalid revision value!"
    ELSE ""

SetMacosSdkVersion(major, minor, revision) ==
    LET op == "set_macos_sdk_version"
        args == <<major, minor, revision>>
        invalid == Validate(major, minor, revision)
    IN  /\ pre' = disk
        /\ IF invalid # ""
           THEN /\ ret' = Call(op, args, Outcome("AssertionError", invalid, <<>>), <<>>)
                /\ io' = <<>>
                /\ UNCHANGED disk
           ELSE IF ~Parseable(disk)
           THEN /\ ret' = Call(op, args, NotMachO, <<>>)
                /\ io' = <<"parse">>
                /\ UNCHANGED disk
           ELSE LET binary == MachO(disk)
                    version_cmd == find_version_cmd(binary.headers[1])
                IN  IF version_cmd = 0
                    THEN /\ ret' = Call(op, args, NoVersionCmd, <<>>)
                         /\ io' = <<"parse">>
                         /\ UNCHANGED disk
                    ELSE LET changed ==
                                 [binary EXCEPT !.headers[1].commands[version_cmd].sdk =
                                     PackVersion(major, minor, revision)]
                         IN  /\ disk' = WriteBack(disk, changed)
                             /\ ret' = Call(op, args, WriteOutcome(changed), <<>>)
                             /\ io' = <<"parse", "write">>

(***************************************************************************)
(* fix_exe_for_code_signing: the link-edit patch of the last slice.        *)
(***************************************************************************)
\* the signature not looked for
SignatureCmdsUnchecked(header) == {}

SignatureCmds(header) == Positions(header.commands, {LC_CODE_SIGNATURE})

LinkeditCmds(header) ==
    {j \in Positions(header.commands, {LC_SEGMENT_64}) :
        header.commands[j].segname = "__LINKEDIT"}

SymtabCmds(header) == Positions(header.commands, {LC_SYMTAB})

\* the page size the new vmsize is rounded up to; 0 when the architecture is unhandled
PageSize(header) ==
    LET arch == get_arch_string(header.header)
    IN  IF arch = Unhandled THEN 0
        ELSE IF StartsWithArm64(arch) THEN PAGE_SIZE_ARM64 ELSE PAGE_SIZE_OTHER

NewStrSize(file_size, header, symtab_sec) ==
    file_size - (header.offset + symtab_sec.stroff)

NewFileSize(file_size, header, linkedit_seg) ==
    file_size - (header.offset + linkedit_seg.fileoff)

\* the file size rounded down to whole pages
NewVmSizeFloor(filesize, page_size) == (filesize \div page_size) * page_size

NewVmSize(filesize, page_size) == CeilDiv(filesize, page_size) * page_size

\* the commands of the header with the recomputed sizes
Resized(file_size, header, linkedit, symtab, page_size) ==
    LET filesize == NewFileSize(file_size, header, header.commands[linkedit])
    IN  [header.commands EXCEPT
            ![symtab].strsize = NewStrSize(file_size, header, header.commands[symtab]),
            ![linkedit].filesize = filesize,
            ![linkedit].vmsize = NewVmSize(filesize, page_size)]

\* the size of the first slice adjusted in place of the last's
FixFatArchsFirst(archs, file_size) ==
    [archs EXCEPT ![1].size = file_size - archs[1].offset]

\* the fat header's table with the size of the last slice adjusted
FixFatArchs(archs, file_size) ==
    [archs EXCEPT ![Len(archs)].size = file_size - archs[Len(archs)].offset]

FixExeForCodeSigning ==
    LET op == "fix_exe_for_code_signing"
        file_size == disk.size
        Failed(msg) == /\ ret' = Call(op, <<>>, Outcome("AssertionError", msg, <<>>), <<>>)
                       /\ io' = <<"parse">>
                       /\ UNCHANGED disk
    IN  /\ pre' = disk
        /\ IF ~Parseable(disk)
           THEN /\ ret' = Call(op, <<>>, NotMachO, <<>>)
                /\ io' = <<"parse">>
                /\ UNCHANGED disk
           ELSE LET executable == MachO(disk)
                    last == Len(executable.headers)
                    header == executable.headers[last]
                IN  IF SignatureCmds(header) # {}
                    THEN Failed("Executable contains code signature!")
                    ELSE IF Cardinality(LinkeditCmds(header)) # 1
                    THEN Failed("Expected exactly one __LINKEDIT segment!")
                    ELSE IF Cardinality(SymtabCmds(header)) # 1
                    THEN Failed("Expected exactly one SYMTAB section!")
                    ELSE IF PageSize(header) = 0
                    THEN Failed("Unhandled architecture!")
                    ELSE LET linkedit == CHOOSE j \in LinkeditCmds(header) : TRUE
                             symtab == CHOOSE j \in SymtabCmds(header) : TRUE
                             patched ==
                                 [executable EXCEPT !.headers[last].commands =
                                     Resized(file_size, header, linkedit, symtab,
                                             PageSize(header))]
                             written == WriteBack(disk, patched)
                         IN  IF WriteOutcome(patched).status # "ok"
                             THEN /\ disk' = written
                                  /\ ret' = Call(op, <<>>, WriteOutcome(patched), <<>>)
                                  /\ io' = <<"parse", "write">>
                             ELSE IF executable.fat
                             THEN /\ disk' = [written EXCEPT
                                                !.archs = FixFatArchs(written.archs, file_size)]
                                  /\ ret' = Call(op, <<>>, Ok(<<>>), <<>>)
                                  /\ io' = <<"parse", "write",
                                             "read_fat_header", "write_fat_header">>
                             ELSE /\ disk' = written
                                  /\ ret' = Call(op, <<>>, Ok(<<>>), <<>>)
                                  /\ io' = <<"parse", "write">>

(***************************************************************************)
(* The files and inputs of the architecture specification.                 *)
(***************************************************************************)
\* a cputype with a cpusubtype: every row of the resolver's table (subtype 8, 2,
\* another, and 8 and 2 under the capability bits 0x40000000 and 0x10000000)
\* for x86_64, arm64 and i386, and powerpc, which the table does not have;
\* 0x01000002 is subtype 2 under bit 24, which the mask 0x0FFFFFFF keeps
CpuPairs ==
    {<<BitOr(CPU_ARCH_ABI64, 7), s>> : s \in {2, 3, 8, 1073741832}}
    \cup {<<BitOr(CPU_ARCH_ABI64, 12), s>> : s \in {0, 2, 8, 268435458, 16777218}}
    \cup {<<7, s>> : s \in {3, 8}}
    \cup {<<18, 0>>}

TargetArchs == {"universal2", "x86_64", "x86_64h", "arm64", "arm64e", "i386"}

\* the load commands of a well-formed unsigned slice
PlainCommands ==
    <<Segment64("__TEXT", 0, LINKEDIT_OFF, LINKEDIT_OFF),
      Segment64("__LINKEDIT", LINKEDIT_OFF, SLICE_LEN - LINKEDIT_OFF, SLICE_LEN - LINKEDIT_OFF),
      BuildVersion(720896, 721152),
      Symtab(LINKEDIT_OFF, SLICE_LEN - LINKEDIT_OFF)>>

ArchSlices == {Slice(p[1], p[2], PlainCommands) : p \in CpuPairs}

\* the sequences of 0 to n slices of S
SlicesUpTo(S, n) == UNION {[1..k -> S] : k \in 0..n}

ArchDisks ==
    {Container("MH_MAGIC_64", <<s>>, SLICE_LEN) : s \in ArchSlices}
    \cup {Container("FAT_MAGIC", ss, PlainSize("FAT_MAGIC", Len(ss))) :
             ss \in SlicesUpTo(ArchSlices, MaxSlices) \ {<<>>}}
    \cup {[magic |-> "not Mach-O", archs |-> <<>>, slices |-> <<>>, size |-> SLICE_LEN]}

InitArch ==
    /\ disk \in ArchDisks
    /\ pre = disk
    /\ ret = NoCall
    /\ io = <<>>

NextArch ==
    \/ GetBinaryArchitectures
    \/ \E target_arch \in TargetArchs : BinaryToTargetArch(target_arch)

SpecArch == InitArch /\ [][NextArch]_vars

(***************************************************************************)
(* The files and inputs of the two version specifications: one reads the   *)
(* minimum OS version over all slices, one sets and reads the SDK version  *)
(* of the first slice.                                                     *)
(***************************************************************************)
\* 10.9.0, 11.0.0, and 0x010A0000: 10.0.0 under a set bit 24
MinOsValues == {657664, 720896, 17432576}
\* 11.1.0 and 10.15.7
SdkValues == {721152, 659207}
\* what a caller passes as major, minor or revision
Components == {-1, 0, 255, 256}

VersionLayouts(minoss, sdks) ==
    {<<>>}
    \cup {<<BuildVersion(m, s)>> : m \in minoss, s \in sdks}
    \cup {<<VersionMin(m, s)>> : m \in minoss, s \in sdks}
    \cup {<<VersionMin(657664, 659207), BuildVersion(720896, 721152)>>}

VersionCommands(layout) ==
    <<Segment64("__TEXT", 0, LINKEDIT_OFF, LINKEDIT_OFF),
      Segment64("__LINKEDIT", LINKEDIT_OFF, SLICE_LEN - LINKEDIT_OFF, SLICE_LEN - LINKEDIT_OFF)>>
    \o layout
    \o <<Symtab(LINKEDIT_OFF, SLICE_LEN - LINKEDIT_OFF)>>

\* x86_64 slices carrying the layouts
VersionSlices(minoss, sdks) ==
    {Slice(BitOr(CPU_ARCH_ABI64, 7), 3, VersionCommands(l)) :
        l \in VersionLayouts(minoss, sdks)}

DisksOf(first, others) ==
    {Container("MH_MAGIC_64", <<s>>, SLICE_LEN) : s \in first}
    \cup {Container("FAT_MAGIC", ss, PlainSize("FAT_MAGIC", Len(ss))) :
             ss \in {<<f>> \o o : f \in first, o \in SlicesUpTo(others, MaxSlices - 1)}}

\* every slice varies in the kind of its version command and in its minimum OS
MinOsDisks ==
    DisksOf(VersionSlices(MinOsValues, {721152}), VersionSlices(MinOsValues, {721152}))

\* the first slice varies in the kind of its version command and in its SDK
SdkDisks ==
    DisksOf(VersionSlices({657664}, SdkValues),
            {Slice(BitOr(CPU_ARCH_ABI64, 12), 0, VersionCommands(l)) :
                l \in {<<>>, <<BuildVersion(720896, 721152)>>}})

InitMinOs ==
    /\ disk \in MinOsDisks
    /\ pre = disk
    /\ ret = NoCall
    /\ io = <<>>

NextMinOs ==
    \/ MacosxVersionMin
    \/ GetMacosSdkVersion

SpecMinOs == InitMinOs /\ [][NextMinOs]_vars

InitSdk ==
    /\ disk \in SdkDisks
    /\ pre = disk
    /\ ret = NoCall
    /\ io = <<>>

NextSdk ==
    \/ GetMacosSdkVersion
    \/ \E major \in Components, minor \in Components, revision \in Components :
          SetMacosSdkVersion(major, minor, revision)

SpecSdk == InitSdk /\ [][NextSdk]_vars

(***************************************************************************)
(* The files of the patch specification: the last slice varies in its      *)
(* architecture, in its __LINKEDIT, symtab and signature commands and in   *)
(* how far the file reaches past the start of __LINKEDIT; the slices       *)
(* before it are well formed, signed or not.                               *)
(***************************************************************************)
LinkeditLayouts ==
    {<<>>,
     <<Segment64("__LINKEDIT", LINKEDIT_OFF, SLICE_LEN - LINKEDIT_OFF, SLICE_LEN - LINKEDIT_OFF)>>,
     <<Segment32("__LINKEDIT", LINKEDIT_OFF, SLICE_LEN - LINKEDIT_OFF, SLICE_LEN - LINKEDIT_OFF)>>,
     <<Segment64("__LINKEDIT", LINKEDIT_OFF, SLICE_LEN - LINKEDIT_OFF, SLICE_LEN - LINKEDIT_OFF),
       Segment64("__LINKEDIT", LINKEDIT_OFF, SLICE_LEN - LINKEDIT_OFF, SLICE_LEN - LINKEDIT_OFF)>>}

\* the string table starts gap bytes into __LINKEDIT
SymtabLayouts(gap) ==
    LET one == Symtab(LINKEDIT_OFF + gap, SLICE_LEN - LINKEDIT_OFF - gap)
    IN  {<<>>, <<one>>, <<one, one>>}

SignatureLayouts == {<<>>, <<CodeSignature>>}

StringTableGaps == {0, 256}

PatchCommands ==
    {<<Segment64("__TEXT", 0, LINKEDIT_OFF, LINKEDIT_OFF)>>
        \o l \o <<BuildVersion(720896, 721152)>> \o y \o g :
        l \in LinkeditLayouts,
        y \in UNION {SymtabLayouts(gap) : gap \in StringTableGaps},
        g \in SignatureLayouts}

\* x86_64, arm64, arm64e, i386, powerpc
PatchArchs == {<<BitOr(CPU_ARCH_ABI64, 7), 3>>, <<BitOr(CPU_ARCH_ABI64, 12), 0>>,
               <<BitOr(CPU_ARCH_ABI64, 12), 2>>, <<7, 3>>, <<18, 0>>}

LastSlices == {Slice(a[1], a[2], c) : a \in PatchArchs, c \in PatchCommands}

EarlierSlices ==
    {Slice(BitOr(CPU_ARCH_ABI64, 7), 3, PlainCommands \o g) : g \in SignatureLayouts}

\* how far the file reaches past the start of the last slice's __LINKEDIT
Reaches == {k * PAGE_SIZE_OTHER + d : k \in 0..MaxPages, d \in {-1, 0, 1}}

\* the offset of the last of n slices under the magic
LastOffset(magic, n) == IF magic \in FatMagics THEN SliceOffset(n) ELSE 0

PatchDisks ==
    {Container(magic, ss, LastOffset(magic, Len(ss)) + LINKEDIT_OFF + r) :
        magic \in {"MH_MAGIC_64"},
        ss \in {<<s>> : s \in LastSlices},
        r \in Reaches}
    \cup {Container(magic, ss, LastOffset(magic, Len(ss)) + LINKEDIT_OFF + r) :
        magic \in FatMagics,
        ss \in {e \o <<l>> : e \in SlicesUpTo(EarlierSlices, MaxSlices - 1), l \in LastSlices},
        r \in Reaches}

InitPatch ==
    /\ disk \in PatchDisks
    /\ pre = disk
    /\ ret = NoCall
    /\ io = <<>>

NextPatch == FixExeForCodeSigning

SpecPatch == InitPatch /\ [][NextPatch]_vars

(***************************************************************************)
(* The files and inputs of the lifecycle specification: every operation,   *)
(* on thin and fat files whose slices are well formed, signed, stripped of *)
(* their load commands, or of an unhandled architecture.                   *)
(***************************************************************************)
LifeSlices ==
    {Slice(BitOr(CPU_ARCH_ABI64, 7), 3, c) :
        c \in {PlainCommands, PlainCommands \o <<CodeSignature>>,
               <<Segment64("__TEXT", 0, LINKEDIT_OFF, LINKEDIT_OFF)>>}}
    \cup {Slice(18, 0, PlainCommands)}

\* the file ends short of its string table, or a page and a byte into it
LifeReaches == {-1, PAGE_SIZE_OTHER + 1}

LifeDisks ==
    {Container(magic, ss, LastOffset(magic, Len(ss)) + LINKEDIT_OFF + r) :
        magic \in {"MH_MAGIC_64"}, ss \in {<<s>> : s \in LifeSlices}, r \in LifeReaches}
    \cup {Container(magic, ss, LastOffset(magic, Len(ss)) + LINKEDIT_OFF + r) :
        magic \in {"FAT_MAGIC"}, ss \in SlicesUpTo(LifeSlices, MaxSlices) \ {<<>>},
        r \in LifeReaches}

LifeComponents == {0, 256}

Init ==
    /\ disk \in LifeDisks
    /\ pre = disk
    /\ ret = NoCall
    /\ io = <<>>

Next ==
    \/ GetBinaryArchitectures
    \/ GetMacosSdkVersion
    \/ MacosxVersionMin
    \/ \E major \in LifeComponents, minor \in LifeComponents, revision \in LifeComponents :
          SetMacosSdkVersion(major, minor, revision)
    \/ FixExeForCodeSigning
    \/ \E target_arch \in TargetArchs : BinaryToTargetArch(target_arch)

Spec == Init /\ [][Next]_vars

(***************************************************************************)
(* What the claims speak of.                                               *)
(***************************************************************************)
IsFat(d) == d.magic \in FatMagics
IsThin(d) == d.magic \in ThinMagics

Called(op) == ret.op = op

\* the cpu types the resolver's table names: x86_64, arm64 and i386 families
TableCpuTypes == {16777223, 16777228, 7}

\* every slice of the file has a cpu type of the table
AllHandled(d) == \A i \in 1..Len(d.slices) : d.slices[i].header.cputype \in TableCpuTypes

\* the subtype without its top four bits (0xF0000000)
LowSubtype(header) == header.cpusubtype % 268435456

\* the name the table of the resolver gives a header of a table cpu type
TableName(header) ==
    CASE header.cputype = 16777223 -> (IF LowSubtype(header) = 8 THEN "x86_64h" ELSE "x86_64")
      [] header.cputype = 16777228 -> (IF LowSubtype(header) = 2 THEN "arm64e" ELSE "arm64")
      [] header.cputype = 7        -> "i386"

\* the names of the slices of a file whose slices are all handled
ArchNames(d) == {TableName(d.slices[i].header) : i \in 1..Len(d.slices)}

(***************************************************************************)
(* C9.  get_binary_architectures resolves every slice by the table: with   *)
(* the top four bits of the subtype masked off, x86_64 gives "x86_64h" for *)
(* subtype 8 and "x86_64" otherwise, arm64 gives "arm64e" for subtype 2    *)
(* and "arm64" otherwise, i386 gives "i386" for any subtype; the call      *)
(* fails with the "Unhandled architecture!" assertion exactly when some    *)
(* slice has another cpu type, and then no name is returned.               *)
(***************************************************************************)
C9_ArchMapping ==
    (Called("get_binary_architectures") /\ Parseable(pre)) =>
        /\ (ret.status = "ok") <=> AllHandled(pre)
        /\ ret.status = "ok" =>
              /\ Len(ret.value[2]) = Len(pre.slices)
              /\ \A i \in 1..Len(pre.slices) :
                    ret.value[2][i] = TableName(pre.slices[i].header)
        /\ ret.status # "ok" =>
              /\ ret.status = "AssertionError"
              /\ ret.msg = "Unhandled architecture!"
              /\ ret.value = <<>>

\* a fat file whose slices resolve to "arm64e" under capability bits and to "x86_64h"
C9_Witness ==
    /\ Called("get_binary_architectures")
    /\ ret.status = "ok"
    /\ Len(pre.slices) = 2
    /\ pre.slices[1].header.cpusubtype = 268435458
    /\ pre.slices[2].header.cpusubtype = 1073741832
    /\ ret.value[2] = <<"arm64e", "x86_64h">>

(***************************************************************************)
(* C6 as stated.  binary_to_target_arch(p, "universal2") succeeds if and   *)
(* only if p is fat, fails with IncompatibleBinaryArchError on every thin  *)
(* p whatever its architecture, and never runs lipo.                       *)
(***************************************************************************)
C6_AsStated ==
    (Called("binary_to_target_arch") /\ ret.args = <<"universal2">>) =>
        /\ (ret.status = "ok") <=> IsFat(pre)
        /\ IsThin(pre) => ret.status = "IncompatibleBinaryArchError"
        /\ ret.thinned = <<>>

(***************************************************************************)
(* C6 amended.  On a file whose slices all have a cpu type of the table,   *)
(* binary_to_target_arch(p, "universal2") succeeds if and only if p is     *)
(* fat and fails with IncompatibleBinaryArchError on every thin p; when    *)
(* some slice has another cpu type it fails with the "Unhandled            *)
(* architecture!" assertion, fat or thin.  It never runs lipo and never    *)
(* changes the file.                                                       *)
(***************************************************************************)
C6_Universal2 ==
    (Called("binary_to_target_arch") /\ ret.args = <<"universal2">> /\ Parseable(pre)) =>
        /\ AllHandled(pre) =>
              /\ (ret.status = "ok") <=> IsFat(pre)
              /\ IsThin(pre) => ret.status = "IncompatibleBinaryArchError"
        /\ ~AllHandled(pre) =>
              ret.status = "AssertionError" /\ ret.msg = "Unhandled architecture!"
        /\ ret.thinned = <<>>
        /\ "lipo" \notin Range(io)
        /\ disk = pre

\* universal2 asked of a fat file of two handled slices: satisfied, lipo not run
C6_Witness ==
    /\ Called("binary_to_target_arch")
    /\ ret.args = <<"universal2">>
    /\ IsFat(pre)
    /\ Len(pre.slices) = 2
    /\ AllHandled(pre)
    /\ ret.status = "ok"
    /\ ret.thinned = <<>>

(***************************************************************************)
(* C7 as stated.  For a concrete target: lipo runs exactly when the file   *)
(* is fat and the target is among its architectures; the call fails with   *)
(* IncompatibleBinaryArchError exactly when the target is not among the    *)
(* file's architectures, without running lipo; a thin file of the target's *)
(* architecture is accepted without running lipo.                          *)
(***************************************************************************)
TargetPresent(d, target_arch) ==
    \E i \in 1..Len(d.slices) :
        /\ d.slices[i].header.cputype \in TableCpuTypes
        /\ TableName(d.slices[i].header) = target_arch

C7_AsStated ==
    (Called("binary_to_target_arch") /\ ret.args # <<"universal2">> /\ Parseable(pre)) =>
        LET target_arch == ret.args[1]
        IN  /\ (ret.thinned = <<target_arch>>) <=>
                    (IsFat(pre) /\ TargetPresent(pre, target_arch))
            /\ (ret.status = "IncompatibleBinaryArchError") <=>
                    ~TargetPresent(pre, target_arch)
            /\ ret.status = "IncompatibleBinaryArchError" => ret.thinned = <<>>
            /\ (IsThin(pre) /\ TargetPresent(pre, target_arch)) =>
                    (ret.status = "ok" /\ ret.thinned = <<>>)

(***************************************************************************)
(* C7 amended.  The same, on a file whose slices all have a cpu type of    *)
(* the table; when some slice has another cpu type the call fails with     *)
(* the "Unhandled architecture!" assertion and lipo is not run.  When lipo *)
(* is not run the file is left as it was.                                  *)
(***************************************************************************)
C7_ConcreteTarget ==
    (Called("binary_to_target_arch") /\ ret.args # <<"universal2">> /\ Parseable(pre)) =>
        LET target_arch == ret.args[1]
        IN  /\ AllHandled(pre) =>
                  /\ (ret.thinned = <<target_arch>>) <=>
                          (IsFat(pre) /\ target_arch \in ArchNames(pre))
                  /\ (ret.status = "IncompatibleBinaryArchError") <=>
                          (target_arch \notin ArchNames(pre))
                  /\ (IsThin(pre) /\ target_arch \in ArchNames(pre)) => ret.status = "ok"
            /\ ~AllHandled(pre) =>
                  ret.status = "AssertionError" /\ ret.msg = "Unhandled architecture!"
            /\ ret.thinned \in {<<>>, <<target_arch>>}
            /\ (ret.thinned = <<>>) <=> ("lipo" \notin Range(io))
            /\ ret.thinned = <<>> => disk = pre
            /\ IsThin(pre) => ret.thinned = <<>>

\* lipo has thinned a fat file of x86_64 and arm64 to its arm64 slice
C7_Witness ==
    /\ Called("binary_to_target_arch")
    /\ ret.args = <<"arm64">>
    /\ IsFat(pre)
    /\ AllHandled(pre)
    /\ ArchNames(pre) = {"x86_64", "arm64"}
    /\ ret.status = "ok"
    /\ ret.thinned = <<"arm64">>
    /\ IsThin(disk)

(***************************************************************************)
(* C8.  macosx_version_min returns the smallest, in the order of triplets, *)
(* of the slices' minimum-OS triplets, each decoded from the version field *)
(* of an LC_VERSION_MIN_MACOSX command or the minos field of an            *)
(* LC_BUILD_VERSION command, whichever the slice carries; the slices taken *)
(* in the reverse order give the same result.                              *)
(***************************************************************************)
\* the bytes of a packed version: bits 16-23, 8-15, 0-7
Bytes(v) == <<(v \div 65536) % 256, (v \div 256) % 256, v % 256>>

\* the version command of a slice that has exactly one
VersionCmdOf(slice) ==
    CHOOSE c \in Range(slice.commands) : c.cmd \in {36, 50}

MinOsTriplet(slice) ==
    LET c == VersionCmdOf(slice)
    IN  IF c.cmd = 36 THEN Bytes(c.version) ELSE Bytes(c.minos)

NotAfter(a, b) ==
    \/ a[1] < b[1]
    \/ a[1] = b[1] /\ a[2] < b[2]
    \/ a[1] = b[1] /\ a[2] = b[2] /\ a[3] <= b[3]

Reversed(d) ==
    [d EXCEPT !.slices = [i \in 1..Len(d.slices) |-> d.slices[Len(d.slices) + 1 - i]]]

C8_MinOsVersion ==
    (Called("macosx_version_min") /\ ret.status = "ok") =>
        /\ \E i \in 1..Len(pre.slices) : ret.value = MinOsTriplet(pre.slices[i])
        /\ \A i \in 1..Len(pre.slices) : NotAfter(ret.value, MinOsTriplet(pre.slices[i]))
        /\ macosx_version_min(Reversed(pre)) = Ok(ret.value)

\* 10.9.0 comes from the second slice's LC_VERSION_MIN_MACOSX, under 11.0.0 in
\* the first slice's LC_BUILD_VERSION
C8_Witness ==
    /\ Called("macosx_version_min")
    /\ ret.status = "ok"
    /\ Len(pre.slices) = 2
    /\ VersionCmdOf(pre.slices[1]).cmd = 50
    /\ VersionCmdOf(pre.slices[2]).cmd = 36
    /\ ret.value = <<10, 9, 0>>
    /\ MinOsTriplet(pre.slices[1]) = <<11, 0, 0>>

(***************************************************************************)
(* C4.  After set_macos_sdk_version(p, M, N, R) has succeeded, which every *)
(* M, N, R in 0..255 does on a thin or fat file whose first slice has one  *)
(* version command of either kind, get_macos_sdk_version(p) returns        *)
(* (M, N, R).                                                              *)
(***************************************************************************)
InRange(x) == 0 <= x /\ x <= 255

OneVersionCmd(slice) ==
    Cardinality({j \in 1..Len(slice.commands) : slice.commands[j].cmd \in {36, 50}}) = 1

C4_RoundTrip ==
    Called("set_macos_sdk_version") =>
        /\ (\A k \in 1..3 : InRange(ret.args[k])) /\ OneVersionCmd(pre.slices[1])
              => ret.status = "ok"
        /\ ret.status = "ok" => get_macos_sdk_version(disk) = Ok(ret.args)

\* (255, 0, 255) set in the LC_VERSION_MIN_MACOSX command of a fat file's first slice
C4_Witness ==
    /\ Called("set_macos_sdk_version")
    /\ ret.status = "ok"
    /\ ret.args = <<255, 0, 255>>
    /\ IsFat(pre)
    /\ VersionCmdOf(pre.slices[1]).cmd = 36
    /\ VersionCmdOf(disk.slices[1]).sdk # VersionCmdOf(pre.slices[1]).sdk

(***************************************************************************)
(* C5.  set_macos_sdk_version with major, minor or revision outside 0..255 *)
(* fails with the validation assertion; it makes no pass over the file,    *)
(* and the file, its SDK version with it, is as it was.                    *)
(***************************************************************************)
C5_Validation ==
    (Called("set_macos_sdk_version") /\ \E k \in 1..3 : ~InRange(ret.args[k])) =>
        /\ ret.status = "AssertionError"
        /\ ret.msg \in {"Invalid major version value!", "Invalid minor version value!",
                         "Invalid revision value!"}
        /\ io = <<>>
        /\ disk = pre

\* (256, 0, 0) refused on a file that a valid call would have changed
C5_Witness ==
    /\ Called("set_macos_sdk_version")
    /\ ret.args = <<256, 0, 0>>
    /\ ret.status = "AssertionError"
    /\ OneVersionCmd(pre.slices[1])
    /\ get_macos_sdk_version(disk).value # <<0, 0, 0>>

(***************************************************************************)
(* The last slice of a file as the patch claims speak of it.               *)
(***************************************************************************)
LastSlice(d) == d.slices[Len(d.slices)]

\* where the last slice starts in the file
LastSliceOffset(d) == IF IsFat(d) THEN d.archs[Len(d.archs)].offset ELSE 0

CmdsOf(slice, kind) == {j \in 1..Len(slice.commands) : slice.commands[j].cmd = kind}

LinkeditOf(slice) ==
    {j \in CmdsOf(slice, 25) : slice.commands[j].segname = "__LINKEDIT"}

Signed(slice) == CmdsOf(slice, 29) # {}

\* one __LINKEDIT segment, one symtab, a cpu type of the resolver's table
Patchable(slice) ==
    /\ Cardinality(LinkeditOf(slice)) = 1
    /\ Cardinality(CmdsOf(slice, 2)) = 1
    /\ slice.header.cputype \in TableCpuTypes

TheLinkedit(slice) == slice.commands[CHOOSE j \in LinkeditOf(slice) : TRUE]

TheSymtab(slice) == slice.commands[CHOOSE j \in CmdsOf(slice, 2) : TRUE]

\* the sizes the patch establishes in the last slice of the file
SizesEstablished(d, before) ==
    LET F == d.size
        off == LastSliceOffset(before)
        old == LastSlice(before)
        new == LastSlice(d)
    IN  /\ TheLinkedit(new).fileoff = TheLinkedit(old).fileoff
        /\ TheSymtab(new).stroff = TheSymtab(old).stroff
        /\ TheLinkedit(new).filesize = F - off - TheLinkedit(new).fileoff
        /\ TheSymtab(new).strsize = F - off - TheSymtab(new).stroff

\* 16 KiB for the arm64 family, 4 KiB otherwise
PageOf(slice) == IF slice.header.cputype = 16777228 THEN 16384 ELSE 4096

\* v is the smallest multiple of page that is at least size
SmallestMultiple(v, page, size) == v % page = 0 /\ v >= size /\ v - page < size

(***************************************************************************)
(* C1.  After fix_exe_for_code_signing has succeeded on a thin binary of   *)
(* F bytes (it is then unsigned): __LINKEDIT's filesize is F - fileoff,    *)
(* the symtab's strsize is F - stroff, and __LINKEDIT's vmsize is the      *)
(* smallest multiple of the page size that is at least the filesize, the   *)
(* page size being 16 KiB for arm64 and arm64e and 4 KiB otherwise.        *)
(***************************************************************************)
C1_ThinSizes ==
    (Called("fix_exe_for_code_signing") /\ ret.status = "ok" /\ IsThin(pre)) =>
        LET F == disk.size
            seg == TheLinkedit(disk.slices[1])
            sym == TheSymtab(disk.slices[1])
        IN  /\ ~Signed(pre.slices[1])
            /\ disk.size = pre.size
            /\ seg.filesize = F - seg.fileoff
            /\ sym.strsize = F - sym.stroff
            /\ SmallestMultiple(seg.vmsize, PageOf(disk.slices[1]), seg.filesize)

\* an arm64e binary reaching 4097 bytes into __LINKEDIT: one 16 KiB page
C1_Witness ==
    /\ Called("fix_exe_for_code_signing")
    /\ ret.status = "ok"
    /\ IsThin(pre)
    /\ pre.slices[1].header = [cputype |-> 16777228, cpusubtype |-> 2]
    /\ TheLinkedit(disk.slices[1]).filesize = 4097
    /\ TheLinkedit(disk.slices[1]).vmsize = 16384
    /\ TheSymtab(disk.slices[1]).strsize = 4097 - 256

(***************************************************************************)
(* C2.  After fix_exe_for_code_signing has succeeded on a fat binary of    *)
(* any number of slices, the fat header's size of the last slice is the    *)
(* file's size less the last slice's offset, and the rest of the fat       *)
(* header's table (offset and size of every slice before the last, offset  *)
(* of the last) is as it was.                                              *)
(***************************************************************************)
C2_FatHeader ==
    (Called("fix_exe_for_code_signing") /\ ret.status = "ok" /\ IsFat(pre)) =>
        LET n == Len(pre.archs)
        IN  /\ Len(disk.archs) = n
            /\ disk.magic = pre.magic
            /\ disk.archs[n].size = disk.size - pre.archs[n].offset
            /\ disk.archs[n].offset = pre.archs[n].offset
            /\ \A i \in 1..(n - 1) : disk.archs[i] = pre.archs[i]

\* the second slice of a fat binary has grown, the first slice's entry has not
C2_Witness ==
    /\ Called("fix_exe_for_code_signing")
    /\ ret.status = "ok"
    /\ IsFat(pre)
    /\ Len(pre.archs) = 2
    /\ disk.archs[2].size > pre.archs[2].size
    /\ disk.archs[1] = pre.archs[1]

(***************************************************************************)
(* C3 as stated.  fix_exe_for_code_signing fails with the signature        *)
(* assertion when the last slice carries LC_CODE_SIGNATURE, and succeeds,  *)
(* establishing the sizes, when it does not.                               *)
(***************************************************************************)
C3_AsStated ==
    Called("fix_exe_for_code_signing") =>
        /\ Signed(LastSlice(pre)) =>
              (ret.status = "AssertionError" /\ ret.msg = "Executable contains code signature!")
        /\ ~Signed(LastSlice(pre)) => ret.status = "ok"

(***************************************************************************)
(* C3 amended.  fix_exe_for_code_signing fails with the signature          *)
(* assertion exactly when the last slice carries LC_CODE_SIGNATURE,        *)
(* whatever the slices before it carry.  When it does not, the call        *)
(* succeeds, establishing the string-table, __LINKEDIT and fat-header      *)
(* sizes, provided the last slice has exactly one 64-bit __LINKEDIT        *)
(* segment, exactly one symtab command and a cpu type of the resolver's    *)
(* table, and the file reaches at least to the start of its string table   *)
(* and of __LINKEDIT; a last slice without those commands or that cpu type *)
(* fails an assertion with the file untouched, and a file that ends        *)
(* before those offsets fails when the negative size is packed.            *)
(***************************************************************************)
ReachesTables(d) ==
    /\ d.size >= LastSliceOffset(d) + TheSymtab(LastSlice(d)).stroff
    /\ d.size >= LastSliceOffset(d) + TheLinkedit(LastSlice(d)).fileoff

C3_SignaturePrecondition ==
    Called("fix_exe_for_code_signing") =>
        LET last == LastSlice(pre)
        IN  /\ Signed(last) <=>
                  (ret.status = "AssertionError"
                      /\ ret.msg = "Executable contains code signature!")
            /\ Signed(last) => disk = pre
            /\ (~Signed(last) /\ ~Patchable(last)) =>
                  /\ ret.status = "AssertionError"
                  /\ ret.msg \in {"Expected exactly one __LINKEDIT segment!",
                                   "Expected exactly one SYMTAB section!",
                                   "Unhandled architecture!"}
                  /\ disk = pre
            /\ (~Signed(last) /\ Patchable(last) /\ ReachesTables(pre)) =>
                  /\ ret.status = "ok"
                  /\ SizesEstablished(disk, pre)
                  /\ IsFat(pre) =>
                        disk.archs[Len(disk.archs)].size = disk.size - LastSliceOffset(pre)
            /\ (~Signed(last) /\ Patchable(last) /\ ~ReachesTables(pre)) =>
                  ret.status = "struct.error"

\* a fat binary patched though its first slice is signed
C3_Witness ==
    /\ Called("fix_exe_for_code_signing")
    /\ ret.status = "ok"
    /\ Len(pre.slices) = 2
    /\ Signed(pre.slices[1])
    /\ ~Signed(pre.slices[2])
    /\ disk # pre

(***************************************************************************)
(* The passes of a call over the file.                                     *)
(***************************************************************************)
Count(events, kinds) == Cardinality({k \in 1..Len(events) : events[k] \in kinds})

WritePasses == Count(io, {"write", "write_fat_header"})

ParsePasses == Count(io, {"parse"})

ReadOnlyOps == {"get_binary_architectures", "get_macos_sdk_version", "macosx_version_min"}

MutatingOps == {"set_macos_sdk_version", "fix_exe_for_code_signing"}

\* the checks of the mutating call that was made have all passed on the file
ChecksPassed ==
    /\ Parseable(pre)
    /\ Called("set_macos_sdk_version") =>
          (\A k \in 1..3 : InRange(ret.args[k])) /\ OneVersionCmd(pre.slices[1])
    /\ Called("fix_exe_for_code_signing") =>
          ~Signed(LastSlice(pre)) /\ Patchable(LastSlice(pre))

(***************************************************************************)
(* C10 as stated.  A mutating call, on a thin and on a fat binary alike,   *)
(* makes exactly one write pass after its one parse pass, and only when    *)
(* all its checks have passed; a read-only call never writes.              *)
(***************************************************************************)
C10_AsStated ==
    /\ ret.op \in MutatingOps =>
          /\ WritePasses > 0 => ChecksPassed
          /\ ret.status = "ok" =>
                (ParsePasses = 1 /\ WritePasses = 1 /\ io[1] = "parse")
    /\ ret.op \in ReadOnlyOps => (WritePasses = 0 /\ disk = pre)

(***************************************************************************)
(* C10 amended.  set_macos_sdk_version, on thin and fat binaries, and      *)
(* fix_exe_for_code_signing on a thin binary make exactly one write pass   *)
(* after their one parse pass; fix_exe_for_code_signing on a fat binary    *)
(* makes two write passes: the write-back of the model, then, after        *)
(* reading the fat header again, the rewrite of the fat header.  A         *)
(* mutating call writes only when all its checks have passed, and then     *)
(* it does write; a call whose checks fail leaves the file as it was.      *)
(* A read-only call never writes.                                          *)
(***************************************************************************)
C10_WritePasses ==
    /\ ret.op \in MutatingOps =>
          /\ (WritePasses > 0) <=> ChecksPassed
          /\ WritePasses = 0 => disk = pre
          /\ ret.status = "ok" =>
                IF Called("fix_exe_for_code_signing") /\ IsFat(pre)
                THEN io = <<"parse", "write", "read_fat_header", "write_fat_header">>
                ELSE io = <<"parse", "write">>
          /\ (ChecksPassed /\ ret.status # "ok") =>
                (ret.status = "struct.error" /\ io = <<"parse", "write">>)
    /\ ret.op \in ReadOnlyOps => (WritePasses = 0 /\ disk = pre /\ io = <<"parse">>)

\* a fat binary of two slices patched in two write passes
C10_Witness ==
    /\ Called("fix_exe_for_code_signing")
    /\ ret.status = "ok"
    /\ IsFat(pre)
    /\ Len(pre.slices) = 2
    /\ WritePasses = 2
    /\ disk.archs # pre.archs

====
